---- MODULE Spec2Model ----
(***************************************************************************)
(* ImageToAscii: the area-based renderer (src/unnamed/part_003) and the    *)
(* fixed-block renderer (src/src/main.cpp).                                *)
(*                                                                         *)
(* Both programs compute in C++ `double`.  A double is modelled exactly:   *)
(* a non-negative binary64 value v is the tuple of limbs d with            *)
(*     v = (d[6]*2^100 + d[5]*2^80 + ... + d[1]) / 2^100,                  *)
(* d[1..5] < 2^20, and every arithmetic operation computes the exact       *)
(* result and rounds it to 53 significant bits, ties to even, as IEEE-754  *)
(* binary64 does.  All values the programs compute within the bounds of    *)
(* this model are 0 or lie in [2^-47, 2^31), where this is exact.          *)
(***************************************************************************)
EXTENDS Integers, Sequences, FiniteSets, TLC

\* ------------------------------------------------------------------------
\* binary64 arithmetic
\* ------------------------------------------------------------------------

\* significand precision of `double`
DBL_MANT_DIG == 53

Limbs == 1..6
FracBits == 100
LimbBase == 2^20

DZero == [i \in Limbs |-> 0]

\* static_cast<double>(n) of a small non-negative integer
FromInt(n) == [i \in Limbs |-> IF i = 6 THEN n ELSE 0]

\* carry propagation: limbs 1..5 brought back into 0 .. 2^20 - 1
Norm(d) ==
    LET t1 == d[1]
        t2 == d[2] + (t1 \div LimbBase)
        t3 == d[3] + (t2 \div LimbBase)
        t4 == d[4] + (t3 \div LimbBase)
        t5 == d[5] + (t4 \div LimbBase)
        t6 == d[6] + (t5 \div LimbBase)
    IN  <<t1 % LimbBase, t2 % LimbBase, t3 % LimbBase, t4 % LimbBase,
          t5 % LimbBase, t6>>

\* exact sum, difference (a >= b), product with a small integer
AddX(a, b) == Norm(<<a[1] + b[1], a[2] + b[2], a[3] + b[3], a[4] + b[4],
                     a[5] + b[5], a[6] + b[6]>>)
SubX(a, b) == Norm(<<a[1] - b[1], a[2] - b[2], a[3] - b[3], a[4] - b[4],
                     a[5] - b[5], a[6] - b[6]>>)
MulX(a, n) == Norm(<<a[1] * n, a[2] * n, a[3] * n, a[4] * n, a[5] * n, a[6] * n>>)

\* exact quotient by a small integer n >= 1: floor(a / n) in units of 2^-100,
\* and the remainder
DivX(a, n) ==
    LET c5 == (a[6] % n) * LimbBase + a[5]
        c4 == (c5 % n) * LimbBase + a[4]
        c3 == (c4 % n) * LimbBase + a[3]
        c2 == (c3 % n) * LimbBase + a[2]
        c1 == (c2 % n) * LimbBase + a[1]
    IN  [q |-> <<c1 \div n, c2 \div n, c3 \div n, c4 \div n, c5 \div n, a[6] \div n>>,
         r |-> c1 % n]

\* a < b, a <= b
DLess(a, b) ==
    IF a[6] # b[6] THEN a[6] < b[6]
    ELSE IF a[5] # b[5] THEN a[5] < b[5]
    ELSE IF a[4] # b[4] THEN a[4] < b[4]
    ELSE IF a[3] # b[3] THEN a[3] < b[3]
    ELSE IF a[2] # b[2] THEN a[2] < b[2]
    ELSE a[1] < b[1]

DLeq(a, b) == ~DLess(b, a)

RECURSIVE NBits(_)
NBits(n) == IF n = 0 THEN 0 ELSE 1 + NBits(n \div 2)

RECURSIVE TopLimb(_, _)
TopLimb(d, i) == IF i = 0 \/ d[i] # 0 THEN i ELSE TopLimb(d, i - 1)

\* number of bits of d as an integer in units of 2^-100
BitLen(d) ==
    LET t == TopLimb(d, 6)
    IN  IF t = 0 THEN 0 ELSE (t - 1) * 20 + NBits(d[t])

LimbOf(p) == IF p >= FracBits THEN 6 ELSE (p \div 20) + 1
OffOf(p) == IF p >= FracBits THEN p - FracBits ELSE p % 20

Bit(d, p) == (d[LimbOf(p)] \div (2^OffOf(p))) % 2

\* some bit below position p is set
LowNonzero(d, p) ==
    \/ \E i \in Limbs : i < LimbOf(p) /\ d[i] # 0
    \/ d[LimbOf(p)] % (2^OffOf(p)) # 0

ClearLow(d, p) ==
    [i \in Limbs |->
        IF i < LimbOf(p) THEN 0
        ELSE IF i = LimbOf(p) THEN d[i] - (d[i] % (2^OffOf(p)))
        ELSE d[i]]

Pow2At(p) == [i \in Limbs |-> IF i = LimbOf(p) THEN 2^OffOf(p) ELSE 0]

\* round the exact value d (plus a positive fraction of 2^-100 when sticky)
\* to DBL_MANT_DIG significant bits, to nearest, ties to even
Round(d, sticky) ==
    LET drop == BitLen(d) - DBL_MANT_DIG
    IN  IF drop <= 0 THEN d
        ELSE LET up == /\ Bit(d, drop - 1) = 1
                       /\ \/ LowNonzero(d, drop - 1)
                          \/ sticky
                          \/ Bit(d, drop) = 1
             IN  IF up THEN AddX(ClearLow(d, drop), Pow2At(drop))
                 ELSE ClearLow(d, drop)

\* a + b, a - b (a >= b), a * n, a / n in double, n a small integer value
DAdd(a, b) == Round(AddX(a, b), FALSE)
DSub(a, b) == Round(SubX(a, b), FALSE)
DMul(a, n) == Round(MulX(a, n), FALSE)
DDivInt(a, n) == LET e == DivX(a, n) IN Round(e.q, e.r # 0)

\* d * 2^k and floor(d / 2^k), exact
RECURSIVE ShiftL(_, _)
ShiftL(d, k) == IF k > 10 THEN ShiftL(MulX(d, 2^10), k - 10) ELSE MulX(d, 2^k)

RECURSIVE ShiftR(_, _)
ShiftR(d, k) == IF k > 10 THEN ShiftR(DivX(d, 2^10).q, k - 10) ELSE DivX(d, 2^k).q

One == <<1, 0, 0, 0, 0, 0>>

Shift1(d, b) == IF b = 1 THEN AddX(AddX(d, d), One) ELSE AddX(d, d)

\* bit p of a * 2^100, a in units of 2^-100
NumBit(a, p) == IF p >= FracBits THEN Bit(a, p - FracBits) ELSE 0

\* some bit of a * 2^100 at a position <= p is set
NumLow(a, p) == p >= FracBits /\ LowNonzero(a, p - FracBits + 1)

\* a / b in double for any b > 0: binary long division of a * 2^100 by b
\* (both in units of 2^-100); s = [q, r, p]: the quotient bits above
\* position p, the remainder, the position of the next quotient bit.  The
\* division stops when the quotient has DBL_MANT_DIG + 2 bits: what is left
\* only decides the sticky bit.
RECURSIVE LongDivBits(_, _, _, _)
LongDivBits(a, b, n, s) ==
    IF n = 0 \/ s.p < 0 \/ BitLen(s.q) - s.p - 1 >= DBL_MANT_DIG + 2
    THEN s
    ELSE LET r2 == Shift1(s.r, NumBit(a, s.p))
         IN  IF DLeq(b, r2)
             THEN LongDivBits(a, b, n - 1,
                     [q |-> AddX(s.q, Pow2At(s.p)), r |-> SubX(r2, b), p |-> s.p - 1])
             ELSE LongDivBits(a, b, n - 1, [q |-> s.q, r |-> r2, p |-> s.p - 1])

\* twenty quotient bits at a time
RECURSIVE LongDiv(_, _, _)
LongDiv(a, b, s) ==
    LET e == LongDivBits(a, b, 20, s)
    IN  IF e.p = s.p - 20 THEN LongDiv(a, b, e) ELSE e

DDiv(a, b) ==
    LET k == IF BitLen(a) >= BitLen(b) THEN BitLen(a) - BitLen(b) + 1 ELSE 0
        e == LongDiv(a, b, [q |-> DZero, r |-> ShiftR(a, k), p |-> FracBits + k - 1])
    IN  Round(e.q, e.r # DZero \/ NumLow(a, e.p))

\* sqrt(a) in double: bit-pair square root of a * 2^100; s = [q, r, p]: the
\* root bits so far, the remainder, the next bit pair.  The extraction stops
\* when the root has DBL_MANT_DIG + 2 bits.
RECURSIVE SqrtBits(_, _, _)
SqrtBits(a, n, s) ==
    IF n = 0 \/ s.p < 0 \/ BitLen(s.q) >= DBL_MANT_DIG + 2
    THEN s
    ELSE LET rem4 == Shift1(Shift1(s.r, NumBit(a, 2 * s.p + 1)), NumBit(a, 2 * s.p))
             cand == Shift1(AddX(s.q, s.q), 1)
         IN  IF DLeq(cand, rem4)
             THEN SqrtBits(a, n - 1,
                     [q |-> Shift1(s.q, 1), r |-> SubX(rem4, cand), p |-> s.p - 1])
             ELSE SqrtBits(a, n - 1, [q |-> Shift1(s.q, 0), r |-> rem4, p |-> s.p - 1])

\* twenty root bits at a time
RECURSIVE SqrtStep(_, _)
SqrtStep(a, s) ==
    LET e == SqrtBits(a, 20, s)
    IN  IF e.p = s.p - 20 THEN SqrtStep(a, e) ELSE e

DSqrt(a) ==
    LET e == SqrtStep(a, [q |-> DZero, r |-> DZero, p |-> (BitLen(a) + FracBits) \div 2])
    IN  Round(ShiftL(e.q, e.p + 1), e.r # DZero \/ NumLow(a, 2 * e.p + 1))

\* static_cast<size_t>(d): truncation toward zero
Trunc(d) == d[6]

Min(a, b) == IF a < b THEN a ELSE b

\* ------------------------------------------------------------------------
\* constants of the programs
\* ------------------------------------------------------------------------

\* characters are their ASCII codes: DENSITY[1] = 64 is '@', the last is 96
\* (backquote)
\* a ramp of 70 characters
DENSITY70 ==
    << 64, 81, 66, 35, 78, 103, 87, 77, 56, 82, 68, 72, 100, 79, 75, 113, 57, 36, 54, 107,
       104, 69, 80, 88, 119, 109, 101, 90, 97, 111, 83, 50, 121, 106, 117, 102, 70, 93, 125, 123,
       116, 120, 49, 122, 118, 55, 108, 99, 105, 76, 47, 92, 124, 63, 42, 62, 114, 94, 59, 58,
       95, 34, 126, 44, 39, 46, 45, 45, 45, 96 >>

DENSITY == <<
     64,  81,  66,  35,  78, 103,  87,  77,  56,  82,
     68,  72, 100,  79,  75, 113,  57,  36,  54, 107,
    104,  69,  80,  88, 119, 109, 101,  90,  97, 111,
     83,  50, 121, 106, 117, 102,  70,  93, 125, 123,
    116, 120,  49, 122, 118,  55, 108,  99, 105,  76,
     47,  92, 124,  63,  42,  62, 114,  94,  59,  58,
     95,  34, 126,  44,  39,  46,  45,  96 >>

\* ' ' and '\n'
SPACE == 32
NEWLINE == 10

\* DENSITY.size()
DensitySize == Len(DENSITY)

\* the double literals 0.299, 0.587, 0.114, 0.2126, 0.7152, 0.0722: the
\* decimal value rounded to the nearest double
RED_WEIGHT_PERC == DDiv(FromInt(299), FromInt(1000))
GREEN_WEIGHT_PERC == DDiv(FromInt(587), FromInt(1000))
BLUE_WEIGHT_PERC == DDiv(FromInt(114), FromInt(1000))

RED_WEIGHT == DDiv(FromInt(2126), FromInt(10000))
GREEN_WEIGHT == DDiv(FromInt(7152), FromInt(10000))
BLUE_WEIGHT == DDiv(FromInt(722), FromInt(10000))

LUMA_MAX == 255

\* Configuration::cols, rows = -1U: no value requested.  The uint32 value
\* 2^32 - 1 is written -1 here; no requested value of the model reaches it.
NoValue == -1

\* Configuration::font_ratio = 0.5, Configuration::num_spaces = 9
DefaultFontRatio == DDivInt(FromInt(1), 2)
DefaultNumSpaces == 9

\* configuration::x_thingy = 1, y_thingy = 2 of the fixed-block renderer
X_THINGY == 1
Y_THINGY == 2

\* ------------------------------------------------------------------------
\* luminance models: a pixel is <<red, green, blue>>, each in 0..255
\* ------------------------------------------------------------------------

\* a standard luminance scaled by 256
lumaOver256(pixel) ==
    DDivInt(DAdd(DAdd(DMul(RED_WEIGHT, pixel[1]), DMul(GREEN_WEIGHT, pixel[2])),
                 DMul(BLUE_WEIGHT, pixel[3])), 256)

luma(pixel) ==
    DDivInt(DAdd(DAdd(DMul(RED_WEIGHT, pixel[1]), DMul(GREEN_WEIGHT, pixel[2])),
                 DMul(BLUE_WEIGHT, pixel[3])),
            LUMA_MAX)

perceived_luma_fast(pixel) ==
    DDivInt(DAdd(DAdd(DMul(RED_WEIGHT_PERC, pixel[1]), DMul(GREEN_WEIGHT_PERC, pixel[2])),
                 DMul(BLUE_WEIGHT_PERC, pixel[3])),
            LUMA_MAX)

perceived_luma(pixel) ==
    DDivInt(DSqrt(DAdd(DAdd(DMul(DMul(RED_WEIGHT_PERC, pixel[1]), pixel[1]),
                            DMul(DMul(GREEN_WEIGHT_PERC, pixel[2]), pixel[2])),
                       DMul(DMul(BLUE_WEIGHT_PERC, pixel[3]), pixel[3]))),
            LUMA_MAX)

\* a selection that looks at perceived before alt
PixelLumaPerceivedFirst(cfg, pixel) ==
    IF cfg.perceived THEN perceived_luma(pixel)
    ELSE IF cfg.alt THEN perceived_luma_fast(pixel)
    ELSE luma(pixel)

\* the branch of average_luma that picks the model: alt, then perceived
PixelLuma(cfg, pixel) ==
    IF cfg.alt THEN perceived_luma_fast(pixel)
    ELSE IF cfg.perceived THEN perceived_luma(pixel)
    ELSE luma(pixel)

\* pixels.get()[index]: the buffer holds the decoded image row by row
ReadPixel(pixels, index) ==
    IF index + 1 \in DOMAIN pixels THEN pixels[index + 1] ELSE <<0, 0, 0>>

\* the luminances of the pixels at coords, <<x, y>> each, in reading order
Lumas(cfg, pixels, img_width, coords) ==
    [k \in DOMAIN coords |->
        PixelLuma(cfg, ReadPixel(pixels, coords[k][1] + coords[k][2] * img_width))]

\* luma_accumulator += ... over the pixels read
RECURSIVE Accumulate(_, _, _)
Accumulate(lumas, k, acc) ==
    IF k > Len(lumas) THEN acc
    ELSE Accumulate(lumas, k + 1, DAdd(acc, lumas[k]))

\* the coordinates two nested loops read, y in ylo .. yhi - 1 outside and
\* x in xlo .. xhi - 1 inside, in reading order
LoopCoords(xlo, xhi, ylo, yhi) ==
    IF xhi <= xlo \/ yhi <= ylo THEN << >>
    ELSE [k \in 1..((xhi - xlo) * (yhi - ylo)) |->
            <<xlo + ((k - 1) % (xhi - xlo)), ylo + ((k - 1) \div (xhi - xlo))>>]

\* ------------------------------------------------------------------------
\* area-based renderer (src/unnamed/part_003)
\* ------------------------------------------------------------------------

\* a region whose last column is the one its right edge falls in
RegionXsInclusive(region, img_width) ==
    [lo |-> Trunc(region.top_left_x),
     hi |-> Min(img_width, Trunc(DAdd(region.top_left_x, region.width)) + 1)]

\* the bounds of the two loops of average_luma over a Quad
RegionXs(region, img_width) ==
    [lo |-> Trunc(region.top_left_x),
     hi |-> Min(img_width, Trunc(DAdd(region.top_left_x, region.width)))]

\* a region that is not clipped to the image
RegionYsUnclipped(region, img_height) ==
    [lo |-> Trunc(region.top_left_y),
     hi |-> Trunc(DAdd(region.top_left_y, region.height))]

RegionYs(region, img_height) ==
    [lo |-> Trunc(region.top_left_y),
     hi |-> Min(img_height, Trunc(DAdd(region.top_left_y, region.height)))]

\* pixel_count == 0 ? luma_accumulator : luma_accumulator / pixel_count
Average(luma_accumulator, pixel_count) ==
    IF pixel_count = 0 THEN luma_accumulator
    ELSE DDivInt(luma_accumulator, pixel_count)

\* the pixels the two loops of average_luma read, in reading order
RegionCoords(xs, ys) == LoopCoords(xs.lo, xs.hi, ys.lo, ys.hi)

\* luma_accumulator after the loops over coords
SumOver(cfg, pixels, img_width, coords) ==
    Accumulate(Lumas(cfg, pixels, img_width, coords), 1, DZero)

\* what average_luma leaves: the pixels read, luma_accumulator, pixel_count
\* and the value returned
Averaged(coords, luma_accumulator) ==
    [coords |-> coords, sum |-> luma_accumulator, div |-> Len(coords),
     result |-> Average(luma_accumulator, Len(coords))]

AverageOver(cfg, pixels, img_width, coords) ==
    Averaged(coords, SumOver(cfg, pixels, img_width, coords))

average_luma(cfg, pixels, region, img_width, img_height) ==
    AverageOver(cfg, pixels, img_width,
                RegionCoords(RegionXs(region, img_width), RegionYs(region, img_height)))

\* an invert step that acts when the flag is set
InvertWhenSet(cfg, luminance) ==
    IF cfg.inverted THEN DSub(FromInt(1), luminance) ELSE luminance

\* if (!config.inverted) luminance = 1 - luminance
Invert(cfg, luminance) ==
    IF ~cfg.inverted THEN DSub(FromInt(1), luminance) ELSE luminance

\* an index that wraps around the ramp instead of running into the padding
DensityIndexWrapped(cfg, luminance) ==
    Trunc(DMul(luminance, DensitySize + cfg.num_spaces - 1)) % DensitySize

\* an index over DENSITY.size() + config.num_spaces slots
DensityIndexOffByOne(cfg, luminance) ==
    Trunc(DMul(luminance, DensitySize + cfg.num_spaces))

\* static_cast<size_t>(double(DENSITY.size() + config.num_spaces - 1) * luminance)
DensityIndex(cfg, luminance) ==
    Trunc(DMul(luminance, DensitySize + cfg.num_spaces - 1))

\* the index at which DENSITY is read for a computed index, NoValue when it is
\* not read (a space is written)
RampRead(index) == IF index >= DensitySize THEN NoValue ELSE index

\* DENSITY[i] for the index read; reading past the end gives no character
RampAt(i) == IF i + 1 \in DOMAIN DENSITY THEN DENSITY[i + 1] ELSE NoValue

\* the character written for a computed index
Emit(index) == IF RampRead(index) = NoValue THEN SPACE ELSE RampAt(RampRead(index))

\* a normalization that truncates the derived dimension
ResolveFloor(cfg, width, height) ==
    IF cfg.cols = NoValue /\ cfg.rows = NoValue
    THEN [cfg EXCEPT !.cols = width, !.rows = height]
    ELSE IF cfg.cols = NoValue
    THEN [cfg EXCEPT !.cols = Trunc(DDivInt(DMul(FromInt(cfg.rows), width), height))]
    ELSE IF cfg.rows = NoValue
    THEN [cfg EXCEPT !.rows = Trunc(DDivInt(DMul(FromInt(cfg.cols), height), width))]
    ELSE cfg

\* columns and rows normalization of main
Resolve(cfg, width, height) ==
    IF cfg.cols = NoValue /\ cfg.rows = NoValue
    THEN [cfg EXCEPT !.cols = width, !.rows = height]
    ELSE IF cfg.cols = NoValue
    THEN [cfg EXCEPT !.cols =
            Trunc(DAdd(DDivInt(DMul(FromInt(cfg.rows), width), height), FromInt(1)))]
    ELSE IF cfg.rows = NoValue
    THEN [cfg EXCEPT !.rows =
            Trunc(DAdd(DDivInt(DMul(FromInt(cfg.cols), height), width), FromInt(1)))]
    ELSE cfg

\* quad_width and quad_height of doAsciiConversion
\* +infinity, the quotient of a positive double by zero
Infinity == [i \in Limbs |-> IF i = 6 THEN -1 ELSE 0]

QuadWidth(cfg, img_width) == DDivInt(FromInt(img_width), cfg.cols)

\* rows * font_ratio is infinite for an infinite font_ratio, and a finite
\* height divided by it is 0
QuadHeight(cfg, img_height) ==
    IF cfg.font_ratio = Infinity THEN DZero
    ELSE DDiv(FromInt(img_height), DMul(cfg.font_ratio, cfg.rows))

\* ------------------------------------------------------------------------
\* fixed-block renderer (src/src/main.cpp)
\* ------------------------------------------------------------------------

\* the bounds of the two loops of average_luma from (startx, starty)
BlockXs(cfg, width, startx) ==
    [lo |-> startx, hi |-> Min(width, startx + cfg.x_thingy)]

BlockYs(cfg, height, starty) ==
    [lo |-> starty, hi |-> Min(height, starty + cfg.y_thingy)]

\* a divisor that counts every pixel read on top of its initial 1
DenominatorCountsAll(coords, start, k, denom) == denom + Len(coords)

\* denom = 1; denom++ for every pixel read but the one at (startx, starty)
RECURSIVE Denominator(_, _, _, _)
Denominator(coords, start, k, denom) ==
    IF k > Len(coords) THEN denom
    ELSE Denominator(coords, start, k + 1,
                     IF coords[k] # start THEN denom + 1 ELSE denom)

\* what average_luma leaves: the pixels read, the sum, denom and the value
\* returned, luminance /= denom
BlockAveraged(coords, luminance, denom) ==
    [coords |-> coords, sum |-> luminance, div |-> denom,
     result |-> DDivInt(luminance, denom)]

BlockAverageOver(cfg, pixels, width, coords, start) ==
    BlockAveraged(coords, SumOver(cfg, pixels, width, coords),
                  Denominator(coords, start, 1, 1))

block_average_luma(cfg, pixels, width, height, startx, starty) ==
    BlockAverageOver(cfg, pixels, width,
                     RegionCoords(BlockXs(cfg, width, startx), BlockYs(cfg, height, starty)),
                     <<startx, starty>>)

\* static_cast<size_t>(double(DENSITY.size() + config.num_spaces) * luminance)
BlockDensityIndex(cfg, luminance) ==
    Trunc(DMul(luminance, DensitySize + cfg.num_spaces))

\* ------------------------------------------------------------------------
\* inputs explored
\* ------------------------------------------------------------------------
MaxW == 3
MaxH == 2
MaxCols == 6
MaxRows == 3

\* rows followed in a loop whose cursor y does not advance
MaxStalledRows == 3

NoRatio == << >>
\* an argument is the sequence of its characters
NoPath == << >>
InputPath == <<"i", "m", "a", "g", "e", ".", "p", "n", "g">>
OutputPath == <<"a", "s", "c", "i", "i", ".", "t", "x", "t">>
OUT_PATH == <<".", "/", "o", "u", "t", ".", "t", "x", "t">>

Black == <<0, 0, 0>>
White == <<255, 255, 255>>
Rose == <<200, 30, 90>>
Palette == <<Black, White, Rose>>

\* a decoded image: pixel k of the buffer takes colour (step * k + first) of
\* the palette, cyclically
MakeImage(w, h, step, first) ==
    [width |-> w, height |-> h,
     pixels |-> [k \in 1..(w * h) |->
                    Palette[((step * (k - 1) + first) % Len(Palette)) + 1]]]

Images ==
    {MakeImage(w, h, step, first) :
        w \in 1..MaxW, h \in 1..MaxH, step \in 0..1, first \in 0..(Len(Palette) - 1)}

NoImage == [width |-> 0, height |-> 0, pixels |-> << >>]

\* a command line of the area-based renderer, option by option; NoValue,
\* NoRatio and NoPath stand for an option that is not given
DefaultLine ==
    [help |-> FALSE, W |-> NoValue, H |-> NoValue, r |-> NoRatio, n |-> NoValue,
     o |-> NoPath, a |-> FALSE, i |-> FALSE, p |-> FALSE, file |-> InputPath]

GeometryLines ==
    {[DefaultLine EXCEPT !.W = c, !.H = r] :
        c \in {NoValue} \cup 1..MaxCols, r \in {NoValue} \cup 1..MaxRows}

RatioLines ==
    {[DefaultLine EXCEPT !.H = r, !.r = <<2, 1>>] : r \in 1..MaxRows}

MappingLines ==
    {[DefaultLine EXCEPT !.a = a, !.i = i, !.p = p, !.n = n] :
        a \in BOOLEAN, i \in BOOLEAN, p \in BOOLEAN, n \in {NoValue, 0}}

OtherLines ==
    {[DefaultLine EXCEPT !.help = TRUE], [DefaultLine EXCEPT !.file = NoPath],
     [DefaultLine EXCEPT !.o = OutputPath]}

CommandLines == GeometryLines \cup RatioLines \cup MappingLines \cup OtherLines

DASH == "-"
NUL == "NUL"
HELP == <<DASH, DASH, "h", "e", "l", "p">>
RATIO_DELIM == {":", "/"}
DigitChars == <<"0", "1", "2", "3", "4", "5", "6", "7", "8", "9">>

\* the decimal numeral of n
RECURSIVE Decimal(_)
Decimal(n) ==
    IF n < 10 THEN <<DigitChars[n + 1]>>
    ELSE Decimal(n \div 10) \o <<DigitChars[(n % 10) + 1]>>

\* the argument "-c"
Flag(c) == <<DASH, c>>

Given(present, arguments) == IF present THEN arguments ELSE << >>

\* argv[1..] of a command line, as the usage text writes it: options, then
\* the file name
Tokens(line) ==
    Given(line.help, <<Flag("h")>>)
    \o Given(line.W # NoValue, <<Flag("W"), Decimal(line.W)>>)
    \o Given(line.H # NoValue, <<Flag("H"), Decimal(line.H)>>)
    \o Given(line.r # NoRatio,
             <<Flag("r"), Decimal(line.r[1]) \o <<":">> \o Decimal(line.r[2])>>)
    \o Given(line.n # NoValue, <<Flag("n"), Decimal(line.n)>>)
    \o Given(line.o # NoPath, <<Flag("o"), line.o>>)
    \o Given(line.a, <<Flag("a")>>)
    \o Given(line.i, <<Flag("i")>>)
    \o Given(line.p, <<Flag("p")>>)
    \o Given(line.file # NoPath, <<line.file>>)

\* -a and -p in either order, apart, clustered, and after the file name
OrderArgvs ==
    {<<Flag("a"), Flag("p"), InputPath>>, <<Flag("p"), Flag("a"), InputPath>>,
     <<<<DASH, "a", "p">>, InputPath>>, <<<<DASH, "p", "a">>, InputPath>>,
     <<InputPath, Flag("p"), Flag("a")>>}

\* -r with a value that has no denominator, and with the '/' form
DenominatorArgvs ==
    {<<Flag("r"), <<"2">>, InputPath>>,
     <<Flag("r"), <<"2", ":">>, Flag("i"), InputPath>>,
     <<Flag("r"), <<"2", "/", "1">>, Flag("H"), <<"1">>, InputPath>>}

\* help flags, unknown flags and missing values in several positions
UsageArgvs ==
    {<<InputPath, Flag("h")>>, <<HELP, InputPath>>, <<InputPath, HELP>>,
     <<Flag("x"), InputPath>>, <<<<DASH, "i", "h">>, InputPath>>,
     <<Flag("i")>>, <<Flag("o"), Flag("h"), InputPath>>,
     <<Flag("o"), HELP, InputPath>>, <<Flag("W"), Flag("h"), InputPath>>,
     <<Flag("n"), <<"x">>, InputPath>>, <<<<DASH, "W", "2">>, InputPath>>}

\* -r with a denominator of zero, for one column and one row
ZeroDenominatorArgvs ==
    {<<Flag("r"), <<"1", ":", "0">>, Flag("W"), <<"1">>, Flag("H"), <<"1">>,
       InputPath>>}

Argvs ==
    {Tokens(line) : line \in CommandLines} \cup OrderArgvs \cup DenominatorArgvs
    \cup UsageArgvs \cup ZeroDenominatorArgvs

\* a command line of the fixed-block renderer
BlockLines ==
    [help : BOOLEAN, n : {NoValue, 0}, o : {NoPath}, a : BOOLEAN, i : BOOLEAN,
     p : BOOLEAN]

\* argv[0]
Program == <<"a", "s", "c", "i", "i">>

\* argv[args], the null pointer that ends argv
NULLPTR == <<"nullptr">>

\* argv of a command line of the fixed-block renderer, as its usage text
\* writes it: the program, the options, the file name
BlockTokens(line) ==
    <<Program>>
    \o Given(line.help, <<Flag("h")>>)
    \o Given(line.n # NoValue, <<Flag("n"), Decimal(line.n)>>)
    \o Given(line.o # NoPath, <<Flag("o"), line.o>>)
    \o Given(line.a, <<Flag("a")>>)
    \o Given(line.i, <<Flag("i")>>)
    \o Given(line.p, <<Flag("p")>>)
    \o <<InputPath>>

\* the same options with the value of -n and of -o in the argument of the
\* option: -nNUMBER, -oFILE
BlockAttached(line) ==
    <<Program>>
    \o Given(line.n # NoValue, <<Flag("n") \o Decimal(line.n)>>)
    \o Given(line.o # NoPath, <<Flag("o") \o line.o>>)
    \o <<InputPath>>

AttachedLines ==
    {[help |-> FALSE, n |-> n, o |-> o, a |-> FALSE, i |-> FALSE, p |-> FALSE] :
        n \in {NoValue, 0}, o \in {NoPath, OutputPath}}

\* no argument at all, --help, and command lines that end with an option or
\* with the value of an option
EndArgvs ==
    {<<Program>>, <<Program, HELP, InputPath>>,
     <<Program, InputPath, Flag("o")>>, <<Program, InputPath, Flag("n")>>,
     <<Program, Flag("o"), OutputPath>>, <<Program, InputPath, Flag("i")>>}

BlockArgvs ==
    {BlockTokens(line) : line \in BlockLines}
    \cup {BlockAttached(line) : line \in AttachedLines} \cup EndArgvs

\* ------------------------------------------------------------------------
\* state
\* ------------------------------------------------------------------------
VARIABLES
    variant,    \* "area" (part_003) or "block" (main.cpp)
    pc,         \* position of main
    config,     \* Configuration / configuration
    requested,  \* columns, rows and font ratio as given on the command line
    img,        \* width, height and pixel buffer once decoded
    quad,       \* quad_width and quad_height of doAsciiConversion
    cur,        \* loop cursors x and y
    out,        \* characters written to the sink so far
    cells,      \* one record per cell sampled so far
    console,    \* messages printed
    sink,       \* "none", "stdout" or "file"
    status,     \* "running", "EXIT_SUCCESS", "EXIT_FAILURE" or "crashed"
    argv,       \* argv[1..] of the area-based renderer; argv[0..] of the
                \* fixed-block renderer, whose loop starts at argv[0]
    argi,       \* the index i of the loop of parse_command_line_args
    img_path,   \* img_path of the main of the fixed-block renderer
    previous_arg, \* the static previous_arg of parse_arg
    good        \* good() of the stream of the sink

vars == <<variant, pc, config, requested, img, quad, cur, out, cells, console,
          sink, status, argv, argi, img_path, previous_arg, good>>

\* struct Configuration with its default member initializers
Configuration ==
    [print_usage |-> FALSE, inverted |-> FALSE, perceived |-> FALSE, alt |-> FALSE,
     cols |-> NoValue, rows |-> NoValue, font_ratio |-> DefaultFontRatio,
     num_spaces |-> DefaultNumSpaces, input_path |-> NoPath, output_path |-> NoPath]

\* struct configuration of the fixed-block renderer
configuration ==
    [malformed |-> FALSE, inverted |-> FALSE, perceived |-> FALSE, alt |-> FALSE,
     x_thingy |-> X_THINGY, y_thingy |-> Y_THINGY, num_spaces |-> DefaultNumSpaces,
     output_path |-> OUT_PATH]

NoRequest == [cols |-> NoValue, rows |-> NoValue, ratio |-> <<1, 2>>]

Init ==
    /\ variant \in {"area", "block"}
    /\ pc = "parse"
    /\ config = IF variant = "area" THEN Configuration ELSE configuration
    /\ requested = NoRequest
    /\ img = NoImage
    /\ quad = [width |-> DZero, height |-> DZero]
    /\ cur = [x |-> DZero, y |-> DZero]
    /\ out = << >>
    /\ cells = << >>
    /\ console = << >>
    /\ sink = "none"
    /\ status = "running"
    /\ argv = << >>
    /\ argi = 1
    /\ img_path = NoPath
    /\ previous_arg = NUL
    /\ good = TRUE

\* ------------------------------------------------------------------------
\* area-based renderer: main, parse_command_line_args, doAsciiConversion
\* ------------------------------------------------------------------------

\* the Configuration parse_arg builds from the options of a command line
ParseArgs(line) ==
    [Configuration EXCEPT
        !.print_usage = line.help,
        !.inverted = line.i,
        !.perceived = line.p,
        !.alt = line.a,
        !.cols = line.W,
        !.rows = line.H,
        !.font_ratio = IF line.r = NoRatio THEN DefaultFontRatio
                       ELSE DDiv(FromInt(line.r[1]), FromInt(line.r[2])),
        !.num_spaces = IF line.n = NoValue THEN DefaultNumSpaces ELSE line.n,
        !.input_path = line.file,
        !.output_path = line.o]

Exit(code) ==
    /\ pc' = "done"
    /\ status' = code

StartsWith(arg, c) == Len(arg) > 0 /\ arg[1] = c

IsDigit(c) == \E d \in DOMAIN DigitChars : DigitChars[d] = c

DigitValue(c) == (CHOOSE d \in DOMAIN DigitChars : DigitChars[d] = c) - 1

RECURSIVE LeadingDigits(_)
LeadingDigits(s) ==
    IF s = << >> \/ ~IsDigit(Head(s)) THEN << >>
    ELSE <<Head(s)>> \o LeadingDigits(Tail(s))

RECURSIVE Horner(_, _)
Horner(digits, acc) ==
    IF digits = << >> THEN acc
    ELSE Horner(Tail(digits), 10 * acc + DigitValue(Head(digits)))

\* std::stoi, std::stoull and std::stod on an unsigned decimal numeral: the
\* value of the leading digits, std::invalid_argument when there is none
stoi(s) ==
    [thrown |-> LeadingDigits(s) = << >>, value |-> Horner(LeadingDigits(s), 0)]

\* the tokens strtok cuts s into: the maximal runs without a delimiter
RECURSIVE strtok(_, _)
strtok(s, token) ==
    IF s = << >> THEN Given(token # << >>, <<token>>)
    ELSE IF Head(s) \in RATIO_DELIM
         THEN Given(token # << >>, <<token>>) \o strtok(Tail(s), << >>)
         ELSE strtok(Tail(s), Append(token, Head(s)))

\* what a call of parse_arg works on: the Configuration, previous_arg, the
\* two integers of the ratio, whether an exception left the call, and whether
\* strcpy wrote past the buffer
Parser ==
    [config |-> config, previous_arg |-> previous_arg, ratio |-> requested.ratio,
     thrown |-> FALSE, overrun |-> FALSE]

Convert(st, number, field) ==
    IF number.thrown THEN [st EXCEPT !.thrown = TRUE]
    ELSE [st EXCEPT !.config[field] = number.value]

\* config.font_ratio = std::stod(x_part) / std::stod(y_part)
FontRatio(st, x_part, y_part) ==
    IF x_part.thrown \/ y_part.thrown THEN [st EXCEPT !.thrown = TRUE]
    ELSE [st EXCEPT !.config.font_ratio =
                        IF y_part.value = 0 /\ x_part.value > 0 THEN Infinity
                        ELSE DDiv(FromInt(x_part.value), FromInt(y_part.value)),
                    !.ratio = <<x_part.value, y_part.value>>]

\* case 'r': the buffer holds one char and strcpy writes arg.length() + 1
Ratio(st, arg, parts) ==
    IF Len(parts) < 2 THEN [st EXCEPT !.overrun = Len(arg) + 1 > 1]
    ELSE FontRatio([st EXCEPT !.overrun = Len(arg) + 1 > 1],
                   stoi(parts[1]), stoi(parts[2]))

\* switch(previous_arg) for an argument that does not start with '-'
Value(st, arg) ==
    CASE st.previous_arg = "W" -> Convert(st, stoi(arg), "cols")
      [] st.previous_arg = "H" -> Convert(st, stoi(arg), "rows")
      [] st.previous_arg = "n" -> Convert(st, stoi(arg), "num_spaces")
      [] st.previous_arg = "o" -> [st EXCEPT !.config.output_path = arg]
      [] st.previous_arg = "r" -> Ratio(st, arg, strtok(arg, << >>))
      [] OTHER -> [st EXCEPT !.config.input_path = arg]

\* switch (a) for a flag letter
Letter(st, a) ==
    CASE a \in {"W", "H", "n", "o", "r"} -> [st EXCEPT !.previous_arg = a]
      [] a = "a" -> [st EXCEPT !.config.alt = TRUE]
      [] a = "h" -> [st EXCEPT !.config.print_usage = TRUE]
      [] a = "i" -> [st EXCEPT !.config.inverted = TRUE]
      [] a = "p" -> [st EXCEPT !.config.perceived = TRUE]
      [] OTHER -> [st EXCEPT !.config.print_usage = TRUE]

RECURSIVE parse_arg(_, _)
RECURSIVE Letters(_, _, _)

\* the loop over the characters of an argument that starts with '-'
Letters(st, arg, i) ==
    IF i > Len(arg) THEN st
    ELSE IF st.previous_arg # NUL THEN parse_arg(st, SubSeq(arg, i, Len(arg)))
    ELSE Letters(Letter(st, arg[i]), arg, i + 1)

parse_arg(st, arg) ==
    IF ~StartsWith(arg, DASH) THEN [Value(st, arg) EXCEPT !.previous_arg = NUL]
    ELSE IF arg = HELP THEN [st EXCEPT !.config.print_usage = TRUE]
    ELSE Letters(st, arg, 2)

\* parse_command_line_args up to its loop: if(args < 2)
ParseCommandLineArgs ==
    /\ variant = "area" /\ pc = "parse"
    /\ \E arguments \in Argvs :
        /\ argv' = arguments
        /\ IF Len(arguments) = 0
           THEN config' = [config EXCEPT !.print_usage = TRUE] /\ pc' = "main"
           ELSE config' = config /\ pc' = "args"
    /\ UNCHANGED <<variant, requested, img, quad, cur, out, cells, console, sink,
                   status, argi, previous_arg, good, img_path>>

\* the state a call of parse_arg leaves
Parsed(st) ==
    /\ config' = st.config
    /\ previous_arg' = st.previous_arg
    /\ requested' = [cols |-> st.config.cols, rows |-> st.config.rows,
                     ratio |-> st.ratio]
    /\ \/ /\ ~st.thrown
          /\ pc' = IF argi = Len(argv) THEN "main" ELSE "args"
          /\ status' = status
       \/ (st.thrown \/ st.overrun) /\ Exit("crashed")

\* one iteration of the loop: parse_arg(res, argv[i]). An exception of stoi,
\* stoull or stod is not caught and ends the run; after the copy that overruns
\* the buffer of case 'r' the run either goes on or is killed.
ParseArg ==
    /\ variant = "area" /\ pc = "args"
    /\ Parsed(parse_arg(Parser, argv[argi]))
    /\ argi' = argi + 1
    /\ UNCHANGED <<variant, img, quad, cur, out, cells, console, sink, argv, good,
                   img_path>>

\* if (config.print_usage || config.input_path.empty())
PrintUsage ==
    /\ variant = "area" /\ pc = "main"
    /\ config.print_usage \/ config.input_path = NoPath
    /\ console' = Append(console, "USAGE")
    /\ Exit("EXIT_SUCCESS")
    /\ UNCHANGED <<variant, config, requested, img, quad, cur, out, cells, sink, argv,
                   argi, previous_arg, good, img_path>>

\* a main that has opened the output file by the time stbi_load returns nullptr
LoadFailAfterOpen ==
    /\ variant = "area" /\ pc = "main"
    /\ ~(config.print_usage \/ config.input_path = NoPath)
    /\ console' = Append(console, "Failed to load")
    /\ sink' = IF config.output_path = NoPath THEN "stdout" ELSE "file"
    /\ Exit("EXIT_FAILURE")
    /\ UNCHANGED <<variant, config, requested, img, quad, cur, out, cells, argv, argi,
                   previous_arg, good, img_path>>

\* stbi_load returns nullptr
LoadFail ==
    /\ variant = "area" /\ pc = "main"
    /\ ~(config.print_usage \/ config.input_path = NoPath)
    /\ console' = Append(console, "Failed to load")
    /\ Exit("EXIT_FAILURE")
    /\ UNCHANGED <<variant, config, requested, img, quad, cur, out, cells, sink, argv,
                   argi, previous_arg, good, img_path>>

\* stbi_load decodes the file; the pixels are copied into a buffer that holds
\* one Color, so for an image of more than one pixel the copy overruns it, and
\* the run either goes on or is killed
Load ==
    /\ variant = "area" /\ pc = "main"
    /\ ~(config.print_usage \/ config.input_path = NoPath)
    /\ \E image \in Images :
        /\ img' = image
        /\ \/ pc' = "resolve" /\ status' = status
           \/ image.width * image.height > 1 /\ Exit("crashed")
    /\ UNCHANGED <<variant, config, requested, quad, cur, out, cells, console, sink,
                   argv, argi, previous_arg, good, img_path>>

\* columns and rows normalization
Normalize ==
    /\ variant = "area" /\ pc = "resolve"
    /\ config' = Resolve(config, img.width, img.height)
    /\ pc' = "open"
    /\ UNCHANGED <<variant, requested, img, quad, cur, out, cells, console, sink,
                   status, argv, argi, previous_arg, good, img_path>>

\* entry of doAsciiConversion on the sink s
Begin(s) ==
    /\ sink' = s
    /\ quad' = [width |-> QuadWidth(config, img.width),
                height |-> QuadHeight(config, img.height)]
    /\ cur' = [x |-> DZero, y |-> DZero]
    /\ pc' = "render"

\* config.output_path.empty(): convert to std::cout
ConvertToStdout ==
    /\ variant = "area" /\ pc = "open"
    /\ config.output_path = NoPath
    /\ Begin("stdout")
    /\ UNCHANGED <<variant, config, requested, img, out, cells, console, status, argv,
                   argi, previous_arg, good, img_path>>

\* the output file opens: convert to it
ConvertToFile ==
    /\ variant = "area" /\ pc = "open"
    /\ config.output_path # NoPath
    /\ Begin("file")
    /\ UNCHANGED <<variant, config, requested, img, out, cells, console, status, argv,
                   argi, previous_arg, good, img_path>>

\* !file.is_open()
OpenFail ==
    /\ variant = "area" /\ pc = "open"
    /\ config.output_path # NoPath
    /\ console' = Append(console, "Could not open")
    /\ good' = FALSE
    /\ Exit("EXIT_FAILURE")
    /\ UNCHANGED <<variant, config, requested, img, quad, cur, out, cells, sink, argv,
                   argi, previous_arg, img_path>>

\* what one iteration of the inner loop computes for a sampled region
CellRecord(sample, luminance, index) ==
    [coords |-> sample.coords, sum |-> sample.sum, div |-> sample.div,
     average |-> sample.result, luminance |-> luminance, index |-> index,
     read |-> RampRead(index), ch |-> Emit(index), x |-> cur.x, y |-> cur.y]

\* the invert step and the index computation on the average of a region
Mapped(cfg, sample, luminance) ==
    CellRecord(sample, luminance, DensityIndex(cfg, luminance))

MapCell(cfg, sample) == Mapped(cfg, sample, Invert(cfg, sample.result))

\* a sink that takes the character of a cell before what it already holds
WriteInFront(cell) ==
    /\ out' = <<cell.ch>> \o out
    /\ cells' = Append(cells, cell)

\* out << the character of the cell
Write(cell) ==
    /\ out' = Append(out, cell.ch)
    /\ cells' = Append(cells, cell)

\* one iteration of the inner loop of doAsciiConversion
Cell ==
    /\ variant = "area" /\ pc = "render"
    /\ DLess(cur.y, FromInt(img.height))
    /\ DLess(cur.x, FromInt(img.width))
    /\ Write(MapCell(config,
                     average_luma(config, img.pixels,
                                  [top_left_x |-> cur.x, top_left_y |-> cur.y,
                                   width |-> quad.width, height |-> quad.height],
                                  img.width, img.height)))
    /\ cur' = [cur EXCEPT !.x = DAdd(cur.x, quad.width)]
    /\ UNCHANGED <<variant, pc, config, requested, img, quad, console, sink, status,
                   argv, argi, previous_arg, good, img_path>>

\* the positions of the row terminators written so far
Newlines == {k \in DOMAIN out : out[k] = NEWLINE}

\* the inner loop ends: out << '\n' and y += quad_height. When the addition
\* leaves y where it was the loop never ends; MaxStalledRows of its rows are
\* followed.
EndRow ==
    /\ variant = "area" /\ pc = "render"
    /\ DLess(cur.y, FromInt(img.height))
    /\ ~DLess(cur.x, FromInt(img.width))
    /\ ~DLess(cur.y, DAdd(cur.y, quad.height)) =>
            Cardinality(Newlines) < MaxStalledRows
    /\ out' = Append(out, NEWLINE)
    /\ cur' = [x |-> DZero, y |-> DAdd(cur.y, quad.height)]
    /\ UNCHANGED <<variant, pc, config, requested, img, quad, cells, console, sink,
                   status, argv, argi, previous_arg, good, img_path>>

\* doAsciiConversion returns to main, which returns for std::cout without a
\* look at the stream, and closes the file and tests file.good() otherwise; a
\* write that fails leaves the stream not good
Return ==
    /\ variant = "area" /\ pc = "render"
    /\ ~DLess(cur.y, FromInt(img.height))
    /\ IF sink = "stdout"
       THEN good' \in BOOLEAN /\ Exit("EXIT_SUCCESS") /\ console' = console
       ELSE \/ good' = TRUE /\ Exit("EXIT_SUCCESS") /\ console' = console
            \/ /\ good' = FALSE
               /\ Exit("EXIT_FAILURE")
               /\ console' = Append(console, "Bad file")
    /\ UNCHANGED <<variant, config, requested, img, quad, cur, out, cells, sink, argv,
                   argi, previous_arg, img_path>>

\* ------------------------------------------------------------------------
\* fixed-block renderer: main and parse_command_line_args of main.cpp
\* ------------------------------------------------------------------------

\* the configuration parse_command_line_args builds from the options given;
\* it returns as soon as it meets -h, which the usage text writes first
BlockParseArgs(line) ==
    IF line.help THEN [configuration EXCEPT !.malformed = TRUE]
    ELSE [configuration EXCEPT
            !.inverted = line.i,
            !.perceived = line.p,
            !.alt = line.a,
            !.num_spaces = IF line.n = NoValue THEN DefaultNumSpaces ELSE line.n,
            !.output_path = IF line.o = NoPath THEN OUT_PATH ELSE line.o]

\* what an iteration of the loop of parse_command_line_args works on: res,
\* the index i, whether USAGE was printed and res returned, and whether an
\* exception left the function
BlockParser ==
    [config |-> config, i |-> argi, returned |-> FALSE, thrown |-> FALSE]

\* fmt::print(USAGE); res.malformed = true; return res
BlockUsage(st) == [st EXCEPT !.config.malformed = TRUE, !.returned = TRUE]

\* argv[++i]
BlockNext(st) == [st EXCEPT !.i = st.i + 1]

\* argv[i], for C index i; argv[args] is the null pointer
BlockArg(i) == IF i < Len(argv) THEN argv[i + 1] ELSE NULLPTR

\* std::stoull(string); the std::string cannot be built from a null pointer
BlockNumSpaces(st, string) ==
    IF string = NULLPTR THEN [st EXCEPT !.thrown = TRUE]
    ELSE Convert(st, stoi(string), "num_spaces")

\* the switch on argv[i][charIndex] = c; rest is &argv[i][charIndex + 1]
BlockLetter(st, c, rest) ==
    CASE c = DASH ->
            IF rest # << >> /\ rest # <<"h", "e", "l", "p">> THEN BlockUsage(st) ELSE st
      [] c = "a" -> [st EXCEPT !.config.alt = TRUE]
      [] c = "h" -> BlockUsage(st)
      [] c = "i" -> [st EXCEPT !.config.inverted = TRUE]
      [] c = "n" ->
            IF rest = << >> THEN BlockNumSpaces(BlockNext(st), BlockArg(st.i + 1))
            ELSE BlockNumSpaces(st, rest)
      [] c = "o" ->
            IF rest = << >>
            THEN [BlockNext(st) EXCEPT !.config.output_path = BlockArg(st.i + 1)]
            ELSE [st EXCEPT !.config.output_path = rest]
      [] c = "p" -> [st EXCEPT !.config.perceived = TRUE]
      [] OTHER -> st

\* for (size_t charIndex = 1; charIndex < length; charIndex++), length being
\* that of the argument the loop started on
RECURSIVE BlockLetters(_, _, _)
BlockLetters(st, arg, charIndex) ==
    IF charIndex >= Len(arg) \/ st.returned \/ st.thrown THEN st
    ELSE BlockLetters(BlockLetter(st, arg[charIndex + 1],
                                  SubSeq(arg, charIndex + 2, Len(arg))),
                      arg, charIndex + 1)

\* the body of the loop over argv for argv[i] = arg
BlockArgument(st, arg) ==
    IF ~StartsWith(arg, DASH) THEN st ELSE BlockLetters(st, arg, 1)

\* parse_command_line_args of main.cpp up to its loop: if (args < 2)
BlockParse ==
    /\ variant = "block" /\ pc = "parse"
    /\ \E arguments \in BlockArgvs :
        /\ argv' = arguments
        /\ IF Len(arguments) < 2
           THEN /\ config' = [config EXCEPT !.malformed = TRUE]
                /\ console' = Append(console, "USAGE")
                /\ pc' = "main"
           ELSE config' = config /\ console' = console /\ pc' = "args"
    /\ argi' = 0
    /\ UNCHANGED <<variant, requested, img, quad, cur, out, cells, sink, status,
                   img_path, previous_arg, good>>

\* the state an iteration of the loop leaves, i++ included
BlockParsed(st) ==
    /\ config' = st.config
    /\ argi' = st.i + 1
    /\ console' = IF st.returned THEN Append(console, "USAGE") ELSE console
    /\ IF st.thrown THEN Exit("crashed")
       ELSE /\ pc' = IF st.returned \/ st.i + 1 >= Len(argv) THEN "main" ELSE "args"
            /\ status' = status

\* one iteration of the loop over argv. An exception of stoull is not caught
\* and ends the run.
BlockParseArg ==
    /\ variant = "block" /\ pc = "args"
    /\ BlockParsed(BlockArgument(BlockParser, BlockArg(argi)))
    /\ UNCHANGED <<variant, requested, img, quad, cur, out, cells, sink, argv,
                   img_path, previous_arg, good>>

\* if (config.malformed) return EXIT_FAILURE
BlockMalformed ==
    /\ variant = "block" /\ pc = "main"
    /\ config.malformed
    /\ Exit("EXIT_FAILURE")
    /\ UNCHANGED <<variant, config, requested, img, quad, cur, out, cells, console,
                   sink, argv, argi, previous_arg, good, img_path>>

\* const char* img_path = argv[args - 1];
\* comps == nullptr || num_cmp != sizeof(color)
BlockLoadFail ==
    /\ variant = "block" /\ pc = "main"
    /\ ~config.malformed
    /\ img_path' = BlockArg(Len(argv) - 1)
    /\ console' = Append(console, "Failed to load")
    /\ Exit("EXIT_FAILURE")
    /\ UNCHANGED <<variant, config, requested, img, quad, cur, out, cells, sink, argv,
                   argi, previous_arg, good>>

\* const char* img_path = argv[args - 1]; stbi_load decodes the file and the
\* pixels are copied into new color[length]
BlockLoad ==
    /\ variant = "block" /\ pc = "main"
    /\ ~config.malformed
    /\ img_path' = BlockArg(Len(argv) - 1)
    /\ \E image \in Images : img' = image
    /\ pc' = "open"
    /\ UNCHANGED <<variant, config, requested, quad, cur, out, cells, console, sink,
                   status, argv, argi, previous_arg, good>>

\* std::ofstream file(config.output_path) opens
BlockOpen ==
    /\ variant = "block" /\ pc = "open"
    /\ config.output_path # NULLPTR
    /\ sink' = "file"
    /\ cur' = [x |-> 0, y |-> 0]
    /\ pc' = "render"
    /\ UNCHANGED <<variant, config, requested, img, quad, out, cells, console, status,
                   argv, argi, previous_arg, good, img_path>>

\* !file.is_open(). A stream opened on a null output_path either fails to
\* open or ends the run.
BlockOpenFail ==
    /\ variant = "block" /\ pc = "open"
    /\ console' = Append(console, "Could not open")
    /\ good' = FALSE
    /\ \/ Exit("EXIT_FAILURE")
       \/ config.output_path = NULLPTR /\ Exit("crashed")
    /\ UNCHANGED <<variant, config, requested, img, quad, cur, out, cells, sink, argv,
                   argi, previous_arg, img_path>>

\* the invert step and the index computation of main
BlockMapped(cfg, sample, luminance) ==
    CellRecord(sample, luminance, BlockDensityIndex(cfg, luminance))

BlockMapCell(cfg, sample) == BlockMapped(cfg, sample, Invert(cfg, sample.result))

\* one iteration of the inner loop of main
BlockCell ==
    /\ variant = "block" /\ pc = "render"
    /\ cur.y < img.height
    /\ cur.x < img.width
    /\ Write(BlockMapCell(config,
                          block_average_luma(config, img.pixels, img.width, img.height,
                                             cur.x, cur.y)))
    /\ cur' = [cur EXCEPT !.x = cur.x + config.x_thingy]
    /\ UNCHANGED <<variant, pc, config, requested, img, quad, console, sink, status,
                   argv, argi, previous_arg, good, img_path>>

\* the inner loop ends: file << '\n' and y += config.y_thingy
BlockEndRow ==
    /\ variant = "block" /\ pc = "render"
    /\ cur.y < img.height
    /\ ~(cur.x < img.width)
    /\ out' = Append(out, NEWLINE)
    /\ cur' = [x |-> 0, y |-> cur.y + config.y_thingy]
    /\ UNCHANGED <<variant, pc, config, requested, img, quad, cells, console, sink,
                   status, argv, argi, previous_arg, good, img_path>>

\* file.close() and the test of file.good()
BlockClose ==
    /\ variant = "block" /\ pc = "render"
    /\ ~(cur.y < img.height)
    /\ \/ good' = TRUE /\ Exit("EXIT_SUCCESS") /\ console' = console
       \/ good' = FALSE /\ Exit("EXIT_FAILURE") /\ console' = Append(console, "Bad file")
    /\ UNCHANGED <<variant, config, requested, img, quad, cur, out, cells, sink, argv,
                   argi, previous_arg, img_path>>

Next ==
    \/ ParseCommandLineArgs
    \/ ParseArg
    \/ PrintUsage
    \/ LoadFail
    \/ Load
    \/ Normalize
    \/ ConvertToStdout
    \/ ConvertToFile
    \/ OpenFail
    \/ Cell
    \/ EndRow
    \/ Return
    \/ BlockParse
    \/ BlockParseArg
    \/ BlockMalformed
    \/ BlockLoadFail
    \/ BlockLoad
    \/ BlockOpen
    \/ BlockOpenFail
    \/ BlockCell
    \/ BlockEndRow
    \/ BlockClose

Spec == Init /\ [][Next]_vars

\* ------------------------------------------------------------------------
\* properties
\* ------------------------------------------------------------------------

Area == variant = "area"
Block == variant = "block"

\* doAsciiConversion has run to its end
Converted == pc = "done" /\ sink # "none"

\* the normalization of main has run
Resolved ==
    /\ Area /\ img # NoImage /\ status # "crashed"
    /\ pc \in {"open", "render", "done"}

\* the number of characters of the line that the terminator at k ends
LineLength(k) ==
    LET before == {j \in Newlines : j < k}
    IN  IF before = {} THEN k - 1
        ELSE k - 1 - (CHOOSE j \in before : \A i \in before : i <= j)

\* the least integer that is at least a / b
Ceil(a, b) == (a + b - 1) \div b

Pixels == (0..(img.width - 1)) \X (0..(img.height - 1))

\* the cells sampled so far whose region holds the pixel at coordinate p
Readers(p) ==
    {c \in DOMAIN cells : \E k \in DOMAIN cells[c].coords : cells[c].coords[k] = p}

\* no pixel is read twice for one cell
NoRepeat(cell) ==
    \A j, k \in DOMAIN cell.coords : cell.coords[j] = cell.coords[k] => j = k

\* C1: in the area-based renderer the output consists of exactly R lines for
\* the resolved rows R, and every line holds exactly C characters, for the
\* resolved columns C, followed by one line terminator.
C1_ExactGrid ==
    (Area /\ Converted) =>
        /\ Cardinality(Newlines) = config.rows
        /\ \A k \in Newlines : LineLength(k) = config.cols
        /\ out # << >> /\ out[Len(out)] = NEWLINE

\* C2 as stated: DENSITY has exactly 70 characters (valid ramp indices are
\* 0..69), with ramp[0] = '@' and ramp[69] the backquote, whatever the padding
\* count of the run.
C2_Ramp70 ==
    config.num_spaces >= 0 =>
        /\ Len(DENSITY) = 70
        /\ DENSITY[1] = 64
        /\ DENSITY[70] = 96

\* C2: DENSITY has exactly 68 characters (valid ramp indices are 0..67), with
\* ramp[0] = '@' and ramp[67] the backquote; whatever the padding count, the
\* ramp is read only at indices 0..67 and the character written is the one at
\* the index read.
C2_Ramp68 ==
    /\ Len(DENSITY) = 68
    /\ DENSITY[1] = 64
    /\ DENSITY[68] = 96
    /\ \A c \in DOMAIN cells :
        cells[c].read # NoValue =>
            /\ cells[c].read \in 0..67
            /\ cells[c].ch = DENSITY[cells[c].read + 1]

\* with no padding the last character of the ramp, at index 67, is written
C2_Witness ==
    /\ config.num_spaces = 0
    /\ \E c \in DOMAIN cells : cells[c].read = 67 /\ cells[c].ch = 96

\* the index the mapper is to compute for the average L of a region: L is
\* replaced by 1 - L exactly when invert is off, then multiplied by
\* RAMP_LENGTH + P - 1 and truncated
MapperIndex(L) ==
    Trunc(DMul(IF config.inverted THEN L ELSE DSub(FromInt(1), L),
               Len(DENSITY) + config.num_spaces - 1))

\* C3: the density mapper of the area-based renderer replaces L by 1 - L
\* exactly when invert is off, computes index = floor((RAMP_LENGTH + P - 1) * L),
\* writes a space when index >= RAMP_LENGTH and ramp[index] otherwise, and
\* never reads the ramp at or past RAMP_LENGTH.
C3_Mapper ==
    Area =>
        \A c \in DOMAIN cells :
            /\ cells[c].index = MapperIndex(cells[c].average)
            /\ cells[c].index >= Len(DENSITY) =>
                    cells[c].ch = SPACE /\ cells[c].read = NoValue
            /\ cells[c].index < Len(DENSITY) =>
                    /\ cells[c].read = cells[c].index
                    /\ cells[c].ch = DENSITY[cells[c].index + 1]
            /\ cells[c].read < Len(DENSITY)

\* one run writes a padding space for one region and a ramp character, at a
\* positive index, for another
C3_Witness ==
    /\ Area
    /\ \E c, d \in DOMAIN cells :
        /\ cells[c].index >= Len(DENSITY) /\ cells[c].ch = SPACE
        /\ cells[d].index \in 1..(Len(DENSITY) - 1) /\ cells[d].ch # SPACE

\* C4: the sets of pixels average_luma sums for the cells doAsciiConversion
\* visits are pairwise disjoint, no pixel is read twice, and once the
\* conversion is over their union is the whole image.
C4_Coverage ==
    Area =>
        /\ \A p \in Pixels : Cardinality(Readers(p)) <= 1
        /\ \A c \in DOMAIN cells :
                /\ NoRepeat(cells[c])
                /\ \A k \in DOMAIN cells[c].coords : cells[c].coords[k] \in Pixels
        /\ Converted => \A p \in Pixels : Cardinality(Readers(p)) = 1

\* a finished conversion of an image of several pixels, with a region of
\* several pixels and more cells than one
C4_Witness ==
    /\ Area /\ Converted
    /\ img.width > 1 /\ img.height > 1
    /\ Len(cells) > 1
    /\ \E c \in DOMAIN cells : Len(cells[c].coords) > 1

\* C5: in the area-based renderer each sampling region is W / C pixels wide
\* and H / R pixels high, so that cell (i, j) starts at row j * H / R; no
\* font-ratio factor enters the region size.
C5_RegionSize ==
    (Area /\ pc = "render") =>
        /\ quad.width = DDivInt(FromInt(img.width), config.cols)
        /\ quad.height = DDivInt(FromInt(img.height), config.rows)

\* C6: when only a column count is requested, the normalization sets
\* rows = ceil(columns * H / W * F) for the font ratio F.
C6_RowsFromColumns ==
    (Resolved /\ requested.cols # NoValue /\ requested.rows = NoValue) =>
        config.rows = Ceil(requested.cols * img.height * requested.ratio[1],
                           img.width * requested.ratio[2])

\* C7: when only a row count is requested, the normalization sets
\* columns = ceil(rows * W / H / F) for the font ratio F.
C7_ColumnsFromRows ==
    (Resolved /\ requested.rows # NoValue /\ requested.cols = NoValue) =>
        config.cols = Ceil(requested.rows * img.width * requested.ratio[2],
                           img.height * requested.ratio[1])

C9_InBounds ==
    \A c \in DOMAIN cells : \A k \in DOMAIN cells[c].coords :
        /\ 0 <= cells[c].coords[k][1] /\ cells[c].coords[k][1] < img.width
        /\ 0 <= cells[c].coords[k][2] /\ cells[c].coords[k][2] < img.height

\* a region of the area-based renderer whose lower edge lies below the image
\* has been sampled
C9_Witness ==
    /\ Area
    /\ \E c \in DOMAIN cells :
        /\ Trunc(DAdd(cells[c].y, quad.height)) > img.height
        /\ Len(cells[c].coords) > 0

\* the pixels of the image inside the region of an area cell
Clipped(cell) ==
    {p \in Pixels :
        /\ Trunc(cell.x) <= p[1] /\ p[1] < Trunc(DAdd(cell.x, quad.width))
        /\ Trunc(cell.y) <= p[2] /\ p[2] < Trunc(DAdd(cell.y, quad.height))}

\* the pixels of the image inside the block of a fixed-block cell
BlockClipped(cell) ==
    {p \in Pixels :
        /\ cell.x <= p[1] /\ p[1] < cell.x + config.x_thingy
        /\ cell.y <= p[2] /\ p[2] < cell.y + config.y_thingy}

\* the pixels read for a cell are those of the set region, each read once
ReadsExactly(cell, region) ==
    /\ {cell.coords[k] : k \in DOMAIN cell.coords} = region
    /\ Len(cell.coords) = Cardinality(region)

\* the value returned is the sum of the selected model over the pixels read
\* divided by their number
IsMean(cell) ==
    /\ cell.sum = SumOver(config, img.pixels, img.width, cell.coords)
    /\ cell.div = Len(cell.coords)
    /\ cell.average = DDivInt(cell.sum, Len(cell.coords))

\* the cell sampled last; a cell is kept as it is once sampled, so that every
\* cell is the last one in the state its sampling leads to
LastCell == cells[Len(cells)]

\* the state the sampling of LastCell leads to: its character is the last
\* one written
Sampled == cells # << >> /\ pc = "render" /\ out[Len(out)] # NEWLINE

RowMajorBefore(a, b) ==
    IF Area
    THEN \/ a.y = b.y /\ DLess(a.x, b.x)
         \/ DLess(a.y, b.y)
    ELSE \/ a.y = b.y /\ a.x < b.x
         \/ a.y < b.y

\* a step that samples a cell writes its character, and nothing else, at the
\* end of the output, and the cell lies after the one sampled before it; it
\* starts a new row exactly when the output ends with a line terminator
OneCharacterPerCell ==
    cells' # cells =>
        /\ Len(cells') = Len(cells) + 1
        /\ \A c \in DOMAIN cells : cells'[c] = cells[c]
        /\ out' = Append(out, cells'[Len(cells')].ch)
        /\ cells # << >> =>
            /\ RowMajorBefore(LastCell, cells'[Len(cells')])
            /\ (LastCell.y # cells'[Len(cells')].y) <=> (out[Len(out)] = NEWLINE)

\* a step that writes without sampling writes one line terminator, after the
\* last character of a row
OneTerminatorPerRow ==
    (out' # out /\ cells' = cells) =>
        /\ out' = Append(out, NEWLINE)
        /\ out # << >>
        /\ out[Len(out)] # NEWLINE

\* C11: characters are written in strict row-major order, rows top to bottom
\* and columns left to right, one character per cell right after the cell is
\* sampled and mapped, and exactly one line terminator after the last
\* character of each row and before the first character of the next.
C11_RowMajor == [][OneCharacterPerCell /\ OneTerminatorPerRow]_vars

\* a finished conversion of several rows of several cells each
C11_Witness ==
    /\ Converted
    /\ Cardinality(Newlines) >= 2
    /\ \A k \in Newlines : LineLength(k) >= 2

\* the region of a cell holds at least one pixel and only pixels of one colour
Uniform(cell, colour) ==
    /\ cell.coords # << >>
    /\ \A k \in DOMAIN cell.coords :
        ReadPixel(img.pixels, cell.coords[k][1] + cell.coords[k][2] * img.width) = colour

UniformImage(colour) ==
    /\ img # NoImage
    /\ \A k \in DOMAIN img.pixels : img.pixels[k] = colour

\* C12 as stated: with invert off, for the default padding a uniform black
\* region renders as a ramp character, a region never renders with a higher
\* index than a brighter region does, and a uniform white image renders only
\* as spaces.
C12_DarkIsHeavy ==
    (~config.inverted /\ cells # << >>) =>
        /\ (config.num_spaces = DefaultNumSpaces /\ Uniform(LastCell, Black)) =>
                LastCell.ch # SPACE
        /\ \A c \in DOMAIN cells :
            /\ DLeq(cells[c].average, LastCell.average) =>
                    cells[c].index >= LastCell.index
            /\ DLeq(LastCell.average, cells[c].average) =>
                    LastCell.index >= cells[c].index
        /\ UniformImage(White) => LastCell.ch = SPACE

\* C12: with invert off, brighter regions map toward the heavy end of the
\* ramp: for the default padding a uniform black region renders as a space, a
\* region never renders with a lower index than a brighter region does, and
\* in a uniform white image every region that holds a pixel renders as
\* ramp[0], '@'.
C12_BrightIsHeavy ==
    (~config.inverted /\ Sampled) =>
        /\ (config.num_spaces = DefaultNumSpaces /\ Uniform(LastCell, Black)) =>
                LastCell.ch = SPACE
        /\ \A c \in DOMAIN cells :
            /\ DLeq(cells[c].average, LastCell.average) =>
                    cells[c].index >= LastCell.index
            /\ DLeq(LastCell.average, cells[c].average) =>
                    LastCell.index >= cells[c].index
        /\ (UniformImage(White) /\ LastCell.coords # << >>) =>
                LastCell.index = 0 /\ LastCell.ch = 64

\* with invert off and the default padding, one run renders a black region as
\* a space and a white region as '@'
C12_Witness ==
    /\ ~config.inverted /\ config.num_spaces = DefaultNumSpaces
    /\ \E c, d \in DOMAIN cells :
        /\ Uniform(cells[c], Black) /\ cells[c].ch = SPACE
        /\ Uniform(cells[d], White) /\ cells[d].ch = 64

\* C13: in every variant of the renderer the computed index is at most
\* RAMP_LENGTH + P - 1; with P = 0 no space is ever written and a luminance of
\* 1 after the invert step gives the last character of the ramp.
C13_IndexInRange ==
    cells # << >> =>
        /\ LastCell.index <= Len(DENSITY) + config.num_spaces - 1
        /\ config.num_spaces = 0 => LastCell.ch # SPACE
        /\ (config.num_spaces = 0 /\ LastCell.luminance = FromInt(1)) =>
                LastCell.ch = DENSITY[Len(DENSITY)]

\* the mapper gives cell a, of luminance at most that of b after the invert
\* step, an index at most that of b, and gives b a space if it gives a one
Monotonic(a, b) ==
    DLeq(a.luminance, b.luminance) =>
        /\ a.index <= b.index
        /\ a.ch = SPACE => b.ch = SPACE

\* C14: the density mapper is monotonic: for a fixed padding and a fixed
\* invert setting, L1 <= L2 after the invert step implies
\* index(L1) <= index(L2), and once the output is a space for some L it is a
\* space for every larger L.
C14_Monotonic ==
    Sampled =>
        \A c \in DOMAIN cells :
            Monotonic(cells[c], LastCell) /\ Monotonic(LastCell, cells[c])

\* one run maps a luminance to a ramp character and a larger luminance to a
\* space
C14_Witness ==
    \E c, d \in DOMAIN cells :
        /\ DLess(cells[c].luminance, cells[d].luminance)
        /\ cells[c].index < cells[d].index
        /\ cells[c].ch # SPACE /\ cells[d].ch = SPACE

\* the image has just been decoded
Decoded == img # NoImage /\ pc \in {"resolve", "open"}

\* the colours of the image
Colours == {img.pixels[k] : k \in DOMAIN img.pixels}

\* |a - b|, exactly
Dist(a, b) == IF DLess(a, b) THEN SubX(b, a) ELSE SubX(a, b)

\* 2^-52, the distance from 1 to the next double
DBL_EPSILON == Pow2At(FracBits - (DBL_MANT_DIG - 1))

IsGray(pixel) == pixel[1] = pixel[2] /\ pixel[2] = pixel[3]

\* v / 255 as a double
GrayLevel(pixel) == DDivInt(FromInt(pixel[1]), 255)

InUnitRange(d) == d[6] >= 0 /\ DLeq(d, FromInt(1))

\* C15 as stated: on every pixel the selected luminance model returns a value
\* in [0, 1], and exactly v / 255 on a gray pixel R = G = B = v; every region
\* average lies in [0, 1].
C15_GrayExact ==
    /\ Decoded =>
        \A k \in DOMAIN img.pixels :
            /\ InUnitRange(PixelLuma(config, img.pixels[k]))
            /\ IsGray(img.pixels[k]) =>
                    PixelLuma(config, img.pixels[k]) = GrayLevel(img.pixels[k])
    /\ cells # << >> => InUnitRange(LastCell.average)

\* C15: on every pixel the selected luminance model returns a value in
\* [0, 1], and on a gray pixel R = G = B = v a value within 2^-52 of v / 255;
\* every region average lies in [0, 1].
C15_GrayWithinEpsilon ==
    /\ Decoded =>
        \A pixel \in Colours :
            /\ InUnitRange(PixelLuma(config, pixel))
            /\ IsGray(pixel) =>
                    DLeq(Dist(PixelLuma(config, pixel), GrayLevel(pixel)), DBL_EPSILON)
    /\ Sampled => InUnitRange(LastCell.average)

\* an image with a white pixel has been decoded for the standard model, which
\* returns less than 1 on it
C15_Witness ==
    /\ Decoded
    /\ ~config.alt /\ ~config.perceived
    /\ \E k \in DOMAIN img.pixels :
        /\ img.pixels[k] = White
        /\ DLess(PixelLuma(config, img.pixels[k]), FromInt(1))

\* the model the flags of the run call for, on the pixel at coordinate p
SelectedModel(p) ==
    CASE config.alt -> perceived_luma_fast(img.pixels[p[1] + p[2] * img.width + 1])
      [] ~config.alt /\ config.perceived ->
            perceived_luma(img.pixels[p[1] + p[2] * img.width + 1])
      [] OTHER -> luma(img.pixels[p[1] + p[2] * img.width + 1])

\* the sum of a cell is the sum of that one model over the pixels read
OneModel(cell) ==
    cell.sum = Accumulate([k \in DOMAIN cell.coords |-> SelectedModel(cell.coords[k])],
                          1, DZero)

Parsing == pc \in {"parse", "args"}

\* C16: one luminance model is applied to every pixel of every region of a
\* run: perceived_luma_fast when alt is set, with or without perceived,
\* perceived_luma when only perceived is set, luma when neither is; and -a
\* and -p set the same two flags in whichever order, apart or in one cluster,
\* before or after the file name, they stand on the command line.
C16_OneModel ==
    /\ Sampled => OneModel(LastCell)
    /\ (Area /\ ~Parsing /\ argv \in OrderArgvs) =>
            /\ config.alt /\ config.perceived
            /\ [config EXCEPT !.cols = NoValue, !.rows = NoValue] =
                    ParseArgs([DefaultLine EXCEPT !.a = TRUE, !.p = TRUE])

\* -p stands before -a, and a region with a coloured pixel, on which the
\* three models differ, has been averaged with perceived_luma_fast
C16_Witness ==
    /\ Converted
    /\ argv = <<Flag("p"), Flag("a"), InputPath>>
    /\ \E k \in DOMAIN LastCell.coords :
            img.pixels[LastCell.coords[k][1] + LastCell.coords[k][2] * img.width + 1]
                = Rose
    /\ LastCell.sum # DZero

Said(message) == \E k \in DOMAIN console : console[k] = message

C18_SinkFailure ==
    /\ Said("Could not open") =>
            status = "EXIT_FAILURE" /\ sink = "none" /\ out = << >> /\ cells = << >>
    /\ (pc = "done" /\ sink # "none" /\ ~good) => status = "EXIT_FAILURE"

\* parse_arg is about to take the value of -r, and the value has no
\* denominator: strtok finds fewer than two parts in it
NoDenominator ==
    /\ Area /\ pc = "args" /\ previous_arg = "r"
    /\ ~StartsWith(argv[argi], DASH)
    /\ Len(strtok(argv[argi], << >>)) < 2

\* C19: when the value given to -r has no denominator, parse_arg leaves
\* font_ratio and every other field of the Configuration as they were and
\* clears previous_arg, and the run goes on to the next argument.
C19_NoDenominator ==
    [][NoDenominator =>
        /\ config' = config
        /\ previous_arg' = NUL
        /\ status' = "running"
        /\ pc' \in {"args", "main"}]_vars

\* the letters the usage text lists: options that take a value, and flags
ValueOptions == {"W", "H", "n", "o", "r"}
FlagLetters == {"a", "h", "i", "p"}

\* argument k is written as a flag argument other than --help, and its
\* character i stands before any option of the argument that takes a value
IsFlagLetter(k, i) ==
    /\ StartsWith(argv[k], DASH) /\ argv[k] # HELP
    /\ i \in 2..Len(argv[k])
    /\ \A j \in 2..(i - 1) : argv[k][j] \notin ValueOptions

\* -h, --help or a letter that is no option appears among the arguments
HelpGiven ==
    \E k \in DOMAIN argv :
        \/ argv[k] = HELP
        \/ \E i \in DOMAIN argv[k] :
                /\ IsFlagLetter(k, i)
                /\ argv[k][i] = "h" \/ argv[k][i] \notin ValueOptions \cup FlagLetters

\* argument k is an option that waits for its value in the next argument
WaitsForValue(k) ==
    /\ StartsWith(argv[k], DASH) /\ argv[k] # HELP
    /\ Len(argv[k]) > 1 /\ argv[k][Len(argv[k])] \in ValueOptions
    /\ IsFlagLetter(k, Len(argv[k]))

\* no argument is a file name: each one is a flag argument or the value of
\* the option before it
NoInputGiven ==
    \A k \in DOMAIN argv :
        StartsWith(argv[k], DASH) \/ (k > 1 /\ WaitsForValue(k - 1))

\* C20: whenever -h or --help or an unrecognized flag letter appears among
\* the arguments, or no input path is given, the run prints the usage text
\* and ends without a conversion: no image is decoded, no sink is opened and
\* nothing but the usage text is written, whatever the other arguments are
\* and wherever the help flag stands.
C20_Usage ==
    (Area /\ pc = "done" /\ (HelpGiven \/ NoInputGiven)) =>
        /\ console = <<"USAGE">>
        /\ status = "EXIT_SUCCESS"
        /\ img = NoImage /\ sink = "none" /\ out = << >> /\ cells = << >>

\* the fields of the Configuration that hold the value of an option
OptionValues(cfg) ==
    <<cfg.cols, cfg.rows, cfg.num_spaces, cfg.output_path, cfg.font_ratio>>

\* C21: an option that takes a value is resolved by the very next argument:
\* a non-dash argument that does not immediately follow such an option is
\* stored as the input path and as nothing else, and an argument that starts
\* with a dash is parsed as flags, never stored as the value of an option,
\* even when it follows a pending option.
C21_ValueFromNextToken ==
    [][(Area /\ pc = "args") =>
        /\ (~StartsWith(argv[argi], DASH) /\ ~(argi > 1 /\ WaitsForValue(argi - 1))) =>
                config' = [config EXCEPT !.input_path = argv[argi]]
        /\ (StartsWith(argv[argi], DASH) /\ argi > 1 /\ WaitsForValue(argi - 1)) =>
                /\ OptionValues(config') = OptionValues(config)
                /\ config'.input_path = config.input_path
                /\ status' = status]_vars

\* C22: doAsciiConversion terminates for every image and every Configuration
\* the parser and the normalization produce: the column cursor x strictly
\* increases with every character written and the row cursor y with every
\* row, so that finitely many of them are written.
C22_CursorsIncrease ==
    [][(Area /\ pc = "render" /\ out' # out) =>
            IF out'[Len(out')] = NEWLINE
            THEN DLess(cur.y, cur'.y)
            ELSE DLess(cur.x, cur'.x) /\ cur'.y = cur.y]_vars

\* C23: in the parser of the fixed-block renderer the characters of a value
\* attached to -n or -o in the same argument are used as that value only,
\* never also as flag letters: inverted, alt and perceived are set only if
\* -i, -a, -p were given as flags.
C23_AttachedValue ==
    (Block /\ pc = "main") =>
        \A line \in AttachedLines :
            argv = BlockAttached(line) => config = BlockParseArgs(line)

\* argv[i] is an option, or the value of the option -n or -o before it
BlockConsumed(i) ==
    \/ StartsWith(BlockArg(i), DASH)
    \/ /\ i > 0
       /\ StartsWith(BlockArg(i - 1), DASH)
       /\ BlockArg(i - 1)[Len(BlockArg(i - 1))] \in {"n", "o"}

\* C24: the parser of the fixed-block renderer reads argv at indexes below
\* args only, also when the last argument is -n or -o without a value, and
\* the image path argv[args - 1] that main uses is no option and no value of
\* an option.
C24_ArgvInBounds ==
    (Block /\ pc # "parse") =>
        /\ argi - 1 < Len(argv)
        /\ img_path # NoPath => ~BlockConsumed(Len(argv) - 1)

====
